---- MODULE Spec2Model ----
(***************************************************************************)
(* Model of flipkart-scraper: ProductDetails::fetch                        *)
(* (src/src/product_details/product.rs) and ProductSearch::search_doc /    *)
(* search (src/src/search/search.rs).                                      *)
(*                                                                         *)
(* Strings are sequences of tokens.  A token is one character ("1", ",",   *)
(* the rupee sign U+20B9 written "Rs") or one of the fixed phrases the     *)
(* code looks for ("Highlights", "Sponsored", "product.share.pp", ...).    *)
(* Option<T> is a record [some |-> FALSE] or [some |-> TRUE, val |-> v].   *)
(* self[i] is the position in the result set of the SearchResult on which  *)
(* fetch_product started invocation i, 0 when fetch was called directly.   *)
(***************************************************************************)
EXTENDS Integers, Sequences, FiniteSets, TLC

VARIABLES pc, url, body, details, idx, net, err,
          spc, squery, sbody, sresults, snet, self

vars == <<pc, url, body, details, idx, net, err,
          spc, squery, sbody, sresults, snet, self>>

fetchVars == <<pc, url, body, details, idx, net, err>>
searchVars == <<spc, squery, sbody, sresults, snet, self>>

-----------------------------------------------------------------------------
(* Bounds of the model *)

\* most div elements in the forward-pass part of a fetched product page
MaxDivs == 3
\* most script elements in a fetched product page
MaxScripts == 2
\* most cards (div[data-id]) in a search page
MaxCards == 2
\* the invocations of ProductDetails::fetch that are followed
Invs == {1, 2}

-----------------------------------------------------------------------------
(* Option<T> *)

None == [some |-> FALSE]
Some(v) == [some |-> TRUE, val |-> v]
\* Option::or
OrOpt(a, b) == IF a.some THEN a ELSE b

-----------------------------------------------------------------------------
(* str *)

RUPEE == "Rs"
Digits == {"0", "1", "2", "3", "4", "5", "6", "7", "8", "9"}
Whitespace == {" "}

RECURSIVE Concat(_)
\* Iterator<&str>::collect::<String>()
Concat(ss) == IF ss = <<>> THEN <<>> ELSE Head(ss) \o Concat(Tail(ss))

\* str::starts_with for a one-token pattern
StartsWith(s, tok) == Len(s) > 0 /\ s[1] = tok
\* str::contains for a one-token pattern
Contains(s, tok) == \E k \in 1..Len(s) : s[k] = tok
\* str::strip_prefix for a one-token pattern
StripPrefix(s, tok) == IF StartsWith(s, tok) THEN Some(Tail(s)) ELSE None

RECURSIVE Remove(_, _)
\* str::replace(tok, "")
Remove(s, tok) ==
    IF s = <<>> THEN <<>>
    ELSE IF Head(s) = tok THEN Remove(Tail(s), tok)
    ELSE <<Head(s)>> \o Remove(Tail(s), tok)

RECURSIVE TrimStart(_)
TrimStart(s) ==
    IF s # <<>> /\ Head(s) \in Whitespace THEN TrimStart(Tail(s)) ELSE s
RECURSIVE TrimEnd(_)
TrimEnd(s) ==
    IF s # <<>> /\ s[Len(s)] \in Whitespace
    THEN TrimEnd(SubSeq(s, 1, Len(s) - 1)) ELSE s
\* str::trim
Trim(s) == TrimEnd(TrimStart(s))

DigitVal(d) == CASE d = "0" -> 0 [] d = "1" -> 1 [] d = "2" -> 2 [] d = "3" -> 3
                 [] d = "4" -> 4 [] d = "5" -> 5 [] d = "6" -> 6 [] d = "7" -> 7
                 [] d = "8" -> 8 [] d = "9" -> 9

RECURSIVE DecVal(_)
DecVal(s) == IF s = <<>> THEN 0 ELSE 10 * DecVal(SubSeq(s, 1, Len(s) - 1)) + DigitVal(s[Len(s)])

AllDigits(s) == s # <<>> /\ \A k \in 1..Len(s) : s[k] \in Digits

I32Max == 2147483647

RECURSIVE StripZeros(_)
StripZeros(s) == IF Len(s) > 1 /\ Head(s) = "0" THEN StripZeros(Tail(s)) ELSE s

\* the digits ds, without leading zeros, are a number of at most lim, for a
\* lim of ten digits (checked without computing a number beyond lim)
AtMost(ds, lim) ==
    \/ Len(ds) < 10
    \/ /\ Len(ds) = 10
       /\ LET hi == DecVal(SubSeq(ds, 1, 9))
              lo == DigitVal(ds[10])
          IN  hi < lim \div 10 \/ (hi = lim \div 10 /\ lo <= lim % 10)

\* str::parse::<i32>().ok(): an optional sign, then one or more digits, in
\* the range of i32
ParseI32(s) ==
    LET signed == s # <<>> /\ s[1] \in {"+", "-"}
        ds == IF signed THEN Tail(s) ELSE s
        neg == signed /\ s[1] = "-"
    IN  IF ~AllDigits(ds) THEN None
        ELSE IF AtMost(StripZeros(ds), I32Max)
             THEN Some(IF neg THEN 0 - DecVal(StripZeros(ds)) ELSE DecVal(StripZeros(ds)))
        ELSE IF neg /\ StripZeros(ds) = <<"2", "1", "4", "7", "4", "8", "3", "6", "4", "8">>
             THEN Some(0 - I32Max - 1)
        ELSE None

\* str::parse::<f32>().ok() on decimal literals digits[.digits]; the value is
\* kept as the pair <<digits before the point, digits after it>>
ParseF32(s) ==
    LET dots == {k \in 1..Len(s) : s[k] = "."}
    IN  IF AllDigits(s) THEN Some(<<s, <<>>>>)
        ELSE IF Cardinality(dots) = 1
             THEN LET d == CHOOSE k \in dots : TRUE
                      w == SubSeq(s, 1, d - 1)
                      f == SubSeq(s, d + 1, Len(s))
                  IN  IF (w = <<>> \/ AllDigits(w)) /\ (f = <<>> \/ AllDigits(f))
                         /\ (w # <<>> \/ f # <<>>)
                      THEN Some(<<w, f>>) ELSE None
             ELSE None

-----------------------------------------------------------------------------
(* url::Url.  A URL string is <<scheme, host, path tokens...>>; the model's   *)
(* strings put only path or query tokens after a host.                        *)

Schemes == {"https://"}
DomainHosts == {"www.flipkart.com", "dl.flipkart.com", "flipkart.com", "www.example.com"}
IpHosts == {"127.0.0.1"}
Hosts == DomainHosts \cup IpHosts
\* the tokens that begin a query
QueryStart == {"?cmpid=", "?marketplace=FLIPKART"}

\* Url::parse(s): Ok(url) for an absolute URL, Err otherwise (a relative
\* reference has no base).  The parsed URL is kept in its serialized form,
\* which writes an empty path as "/".
UrlParse(s) ==
    IF Len(s) >= 2 /\ s[1] \in Schemes /\ s[2] \in Hosts
    THEN Some(IF Len(s) = 2 \/ s[3] \in QueryStart
              THEN <<s[1], s[2], "/">> \o SubSeq(s, 3, Len(s)) ELSE s)
    ELSE None

\* Url::domain(): None when the host is an IP address
Domain(u) == IF u[2] \in DomainHosts THEN Some(u[2]) ELSE None

\* str::contains("flipkart.com") over the host names of the model
ContainsFlipkart(host) == host \in {"www.flipkart.com", "dl.flipkart.com", "flipkart.com"}

\* From<Url> for String
UrlString(u) == u

-----------------------------------------------------------------------------
(* The parsed document (scraper::Html): the nodes in document order, each     *)
(* with the index of its parent (0: the document root).                       *)

\* a node is [par, tag, attrs, text]: a text node has the tag "#text", an
\* element its attributes as a function from the names of those it carries
TEXT == "#text"
NoAttrs == <<>>
OptAttr(name, opt) == IF opt.some THEN name :> opt.val ELSE NoAttrs
\* Element::attr(name)
Attr(node, name) == IF name \in DOMAIN node.attrs THEN Some(node.attrs[name]) ELSE None
\* Element::classes()
Classes(node) == IF "class" \in DOMAIN node.attrs THEN node.attrs["class"] ELSE <<>>

TextNode(t) == <<[par |-> 0, tag |-> TEXT, attrs |-> NoAttrs, text |-> t]>>

Shift(frag, p, off) ==
    [k \in 1..Len(frag) |-> [frag[k] EXCEPT !.par = IF @ = 0 THEN p ELSE @ + off]]

RECURSIVE Place(_, _, _)
\* the fragments kids, one after the other, as children of node p, the first
\* of them put after off nodes
Place(kids, p, off) ==
    IF kids = <<>> THEN <<>>
    ELSE Shift(Head(kids), p, off) \o Place(Tail(kids), p, off + Len(Head(kids)))

ElA(tag, attrs, kids) ==
    <<[par |-> 0, tag |-> tag, attrs |-> attrs, text |-> <<>>]>>
      \o Place(kids, 1, 1)
El(tag, kids) == ElA(tag, NoAttrs, kids)
Doc(kids) == Place(kids, 0, 0)

RECURSIVE SubtreeLast(_, _, _)
\* the last node of the subtree of n, walking on from node m of it: in
\* document order the subtree of n is n and the nodes after it up to the first
\* whose parent comes before n
SubtreeLast(d, n, m) ==
    IF m + 1 <= Len(d) /\ d[m + 1].par >= n THEN SubtreeLast(d, n, m + 1) ELSE m

\* the nodes below n in document order (n = 0: the whole document)
Descendants(d, n) ==
    IF n = 0 THEN [k \in 1..Len(d) |-> k]
    ELSE [k \in 1..(SubtreeLast(d, n, n) - n) |-> n + k]

IsElement(d, m) == d[m].tag # TEXT
IsElem(d, m, tag) == d[m].tag = tag

\* ElementRef::select(tag) / Html::select(tag) with n = 0: the descendants of
\* n with that tag, in document order (n itself is not among them)
Select(d, n, tag) == SelectSeq(Descendants(d, n), LAMBDA m : IsElem(d, m, tag))

\* select("#id")
SelectId(d, n, id) ==
    SelectSeq(Descendants(d, n), LAMBDA m : IsElement(d, m) /\ Attr(d[m], "id") = Some(id))

\* a compound class selector ".a.b": every class is among the element's
ClassMatch(sel, node) ==
    \A k \in 1..Len(sel) : \E j \in 1..Len(Classes(node)) : Classes(node)[j] = sel[k]
SelectClass(d, n, sel) ==
    SelectSeq(Descendants(d, n), LAMBDA m : IsElement(d, m) /\ ClassMatch(sel, d[m]))

\* ElementRef::text(): the text nodes below n, in document order
Text(d, n) ==
    LET ts == SelectSeq(Descendants(d, n), LAMBDA m : ~IsElement(d, m))
    IN  [k \in 1..Len(ts) |-> d[ts[k]].text]

\* Iterator::next / nth(k - 1)
Nth(seq, k) == IF Len(seq) >= k THEN Some(seq[k]) ELSE None
First(seq) == Nth(seq, 1)

Siblings(d, n) == {m \in 1..Len(d) : m # n /\ d[m].par = d[n].par}
NextSibling(d, n) ==
    LET later == {m \in Siblings(d, n) : m > n}
    IN  IF later = {} THEN None ELSE Some(CHOOSE m \in later : \A x \in later : m <= x)
PrevSibling(d, n) ==
    LET earlier == {m \in Siblings(d, n) : m < n}
    IN  IF earlier = {} THEN None ELSE Some(CHOOSE m \in earlier : \A x \in earlier : m >= x)
Children(d, n) == {m \in 1..Len(d) : d[m].par = n}
FirstChild(d, n) ==
    IF Children(d, n) = {} THEN None
    ELSE Some(CHOOSE m \in Children(d, n) : \A x \in Children(d, n) : m <= x)
LastChild(d, n) ==
    IF Children(d, n) = {} THEN None
    ELSE Some(CHOOSE m \in Children(d, n) : \A x \in Children(d, n) : m >= x)

\* node.value().as_text().map(to_string)
AsText(d, m) == IF ~IsElement(d, m) THEN Some(d[m].text) ELSE None

-----------------------------------------------------------------------------
(* ProductDetails and the field extractors of ProductDetails::fetch *)

\* ProductDetails::default()
DefaultDetails ==
    [name |-> None, in_stock |-> FALSE, current_price |-> None,
     original_price |-> None, product_id |-> None, share_url |-> <<>>,
     rating |-> None, f_assured |-> FALSE, highlights |-> <<>>, seller |-> None,
     thumbnails |-> <<>>, offers |-> <<>>, specifications |-> <<>>]

\* the phrases looked for in the raw body
MOVED == "has been moved or deleted"
NOTRIGHT == "not right!"
ISE == "Internal Server Error"
SOON == "Coming Soon"
OOS == "currently out of stock"
Phrases == {MOVED, NOTRIGHT, ISE, SOON, OOS}

STAR_SVG == "star_base64_svg"
FA_PNG == "fa_62673a.png"

NotFoundSignature(b) == MOVED \in b.phr \/ NOTRIGHT \in b.phr
ServerErrorSignature(b) == ISE \in b.phr
ComingSoon(b) == SOON \in b.phr
InStock(b) == ~(ComingSoon(b) \/ OOS \in b.phr)

\* the first h1, or else the first title element
TitleOf(d) ==
    LET e == OrOpt(First(Select(d, 0, "h1")), First(Select(d, 0, "title")))
    IN  IF e.some THEN Some(Concat(Text(d, e.val))) ELSE None

RECURSIVE SrcsOf(_, _)
\* the src attributes of the img elements imgs, those without one left out
SrcsOf(d, imgs) ==
    IF imgs = <<>> THEN <<>>
    ELSE (IF Attr(d[Head(imgs)], "src").some THEN <<Attr(d[Head(imgs)], "src").val>> ELSE <<>>)
           \o SrcsOf(d, Tail(imgs))

RECURSIVE ListSrcs(_, _)
ListSrcs(d, lis) ==
    IF lis = <<>> THEN <<>>
    ELSE SrcsOf(d, Select(d, Head(lis), "img")) \o ListSrcs(d, Tail(lis))

RECURSIVE ThumbnailsOf(_, _)
\* the image sources of the first ul without text that has any
ThumbnailsOf(d, lists) ==
    IF lists = <<>> THEN <<>>
    ELSE IF Trim(Concat(Text(d, Head(lists)))) # <<>> THEN ThumbnailsOf(d, Tail(lists))
    ELSE LET thumbnails == ListSrcs(d, Select(d, Head(lists), "li"))
         IN  IF thumbnails # <<>> THEN thumbnails ELSE ThumbnailsOf(d, Tail(lists))

SellerOf(d) ==
    LET seller_elem == First(SelectId(d, 0, "sellerName"))
    IN  IF ~seller_elem.some THEN None
        ELSE LET span_elem == First(Select(d, seller_elem.val, "span"))
                 div_elem == First(Select(d, seller_elem.val, "div"))
                 div_text == IF div_elem.some
                             THEN Some(Trim(Concat(Text(d, div_elem.val)))) ELSE None
                 name == OrOpt(IF span_elem.some THEN First(Text(d, span_elem.val)) ELSE None,
                               div_text)
             IN  IF name.some
                 THEN Some([name |-> name.val,
                            rating |-> IF div_text.some THEN ParseF32(div_text.val) ELSE None])
                 ELSE None

\* element.text().next().unwrap_or_default().trim()
LeadingText(d, e) ==
    LET t == First(Text(d, e)) IN IF t.some THEN Trim(t.val) ELSE <<>>

RECURSIVE FullTexts(_, _)
FullTexts(d, es) ==
    IF es = <<>> THEN <<>> ELSE <<Concat(Text(d, Head(es)))>> \o FullTexts(d, Tail(es))

HighlightsRule(dt, d, e, text) ==
    IF dt.highlights = <<>> /\ StartsWith(text, "Highlights")
    THEN LET ul_elem == First(Select(d, e, "ul"))
         IN  IF ul_elem.some
             THEN [dt EXCEPT !.highlights = FullTexts(d, Select(d, ul_elem.val, "li"))]
             ELSE dt
    ELSE dt

OfferOf(d, offer) ==
    LET offer_container == First(Select(d, offer, "span"))
        category == IF offer_container.some
                    THEN Some(Concat(Text(d, offer_container.val))) ELSE None
        sibling == IF offer_container.some THEN NextSibling(d, offer_container.val) ELSE None
    IN  IF ~sibling.some THEN None
        ELSE IF IsElem(d, sibling.val, "span")
             THEN LET first == FirstChild(d, sibling.val)
                      description == IF first.some THEN AsText(d, first.val) ELSE None
                  IN  IF description.some
                      THEN Some([category |-> category, description |-> description.val])
                      ELSE None
             ELSE Some([category |-> None, description |-> category.val])

RECURSIVE OffersOf(_, _)
OffersOf(d, lis) ==
    IF lis = <<>> THEN <<>>
    ELSE (IF OfferOf(d, Head(lis)).some THEN <<OfferOf(d, Head(lis)).val>> ELSE <<>>)
           \o OffersOf(d, Tail(lis))

OffersRule(dt, d, e, text, in_stock) ==
    IF in_stock /\ StartsWith(text, "Available offers")
    THEN [dt EXCEPT !.offers = @ \o OffersOf(d, Select(d, e, "li"))]
    ELSE dt

RECURSIVE RowsOf(_, _)
RowsOf(d, rows) ==
    IF rows = <<>> THEN <<>>
    ELSE LET td == Select(d, Head(rows), "td")
         IN  (IF Len(td) >= 2
              THEN <<[name |-> Concat(Text(d, td[1])), value |-> Concat(Text(d, td[2]))]>>
              ELSE <<>>) \o RowsOf(d, Tail(rows))

SpecsOfTable(d, table) ==
    LET elem == PrevSibling(d, table)
        first == IF elem.some THEN FirstChild(d, elem.val) ELSE None
        category == IF first.some THEN AsText(d, first.val) ELSE None
    IN  IF category.some
        THEN Some([category |-> category.val,
                   specifications |-> RowsOf(d, Select(d, table, "tr"))])
        ELSE None

RECURSIVE SpecsOf(_, _)
SpecsOf(d, tables) ==
    IF tables = <<>> THEN <<>>
    ELSE (IF SpecsOfTable(d, Head(tables)).some
          THEN <<SpecsOfTable(d, Head(tables)).val>> ELSE <<>>) \o SpecsOf(d, Tail(tables))

SpecificationsRule(dt, d, e, text) ==
    IF dt.specifications = <<>> /\ StartsWith(text, "Specifications")
    THEN [dt EXCEPT !.specifications = SpecsOf(d, Select(d, e, "table"))]
    ELSE dt

RatingRule(dt, d, e, text) ==
    LET img_elem == First(Select(d, e, "img"))
    IN  IF dt.rating.some \/ ~img_elem.some THEN dt
        ELSE IF Attr(d[img_elem.val], "src") = Some(STAR_SVG)
             THEN [dt EXCEPT !.rating = ParseF32(text)]
             ELSE dt

FAssuredRule(dt, d, e) ==
    IF ~dt.current_price.some
       /\ \E k \in 1..Len(Select(d, e, "img")) :
             Attr(d[Select(d, e, "img")[k]], "src") = Some(FA_PNG)
    THEN [dt EXCEPT !.f_assured = TRUE]
    ELSE dt

RECURSIVE PriceLoopZero(_, _, _)
\* PriceLoop with an unparsable second figure taken as 0 instead of falling
\* back to current_price
PriceLoopZero(dt, d, es) ==
    IF es = <<>> THEN [details |-> dt, panic |-> FALSE]
    ELSE LET text == StripPrefix(Concat(Text(d, Head(es))), RUPEE)
         IN  IF ~text.some THEN [details |-> dt, panic |-> TRUE]
             ELSE IF Contains(text.val, RUPEE) THEN PriceLoopZero(dt, d, Tail(es))
             ELSE LET price_tag == ParseI32(Remove(text.val, ","))
                  IN  IF ~dt.current_price.some
                      THEN PriceLoopZero([dt EXCEPT !.current_price = price_tag], d, Tail(es))
                      ELSE [details |-> [dt EXCEPT !.original_price =
                                                     OrOpt(price_tag, Some(0))],
                            panic |-> FALSE]

RECURSIVE PriceLoopNegated(_, _, _)
\* PriceLoop with the test of current_price negated: the first figure is
\* written to original_price
PriceLoopNegated(dt, d, es) ==
    IF es = <<>> THEN [details |-> dt, panic |-> FALSE]
    ELSE LET text == StripPrefix(Concat(Text(d, Head(es))), RUPEE)
         IN  IF ~text.some THEN [details |-> dt, panic |-> TRUE]
             ELSE IF Contains(text.val, RUPEE) THEN PriceLoopNegated(dt, d, Tail(es))
             ELSE LET price_tag == ParseI32(Remove(text.val, ","))
                  IN  IF dt.current_price.some
                      THEN PriceLoopNegated([dt EXCEPT !.current_price = price_tag], d, Tail(es))
                      ELSE [details |-> [dt EXCEPT !.original_price =
                                                     OrOpt(price_tag, dt.current_price)],
                            panic |-> FALSE]

RECURSIVE PriceLoop(_, _, _)
\* the loop over the nested divs of a price container; panic: strip_prefix
\* returned None and was unwrapped
PriceLoop(dt, d, es) ==
    IF es = <<>> THEN [details |-> dt, panic |-> FALSE]
    ELSE LET text == StripPrefix(Concat(Text(d, Head(es))), RUPEE)
         IN  IF ~text.some THEN [details |-> dt, panic |-> TRUE]
             ELSE IF Contains(text.val, RUPEE) THEN PriceLoop(dt, d, Tail(es))
             ELSE LET price_tag == ParseI32(Remove(text.val, ","))
                  IN  IF ~dt.current_price.some
                      THEN PriceLoop([dt EXCEPT !.current_price = price_tag], d, Tail(es))
                      ELSE [details |-> [dt EXCEPT !.original_price =
                                                     OrOpt(price_tag, dt.current_price)],
                            panic |-> FALSE]

\* PriceRule without the test of the leading text
PriceRuleAnyText(dt, d, e, text) ==
    IF ~dt.original_price.some
    THEN PriceLoop(dt, d, Select(d, e, "div"))
    ELSE [details |-> dt, panic |-> FALSE]

PriceRule(dt, d, e, text) ==
    IF ~dt.original_price.some /\ StartsWith(text, RUPEE)
    THEN PriceLoop(dt, d, Select(d, e, "div"))
    ELSE [details |-> dt, panic |-> FALSE]

\* ScanElement without the skip of rating, f-assured and price on a
\* "Coming Soon" page
ScanElementNoSkip(dt, d, e, in_stock, coming_soon) ==
    LET text == LeadingText(d, e)
        d1 == HighlightsRule(dt, d, e, text)
        d2 == OffersRule(d1, d, e, text, in_stock)
        d3 == SpecificationsRule(d2, d, e, text)
    IN  PriceRule(FAssuredRule(RatingRule(d3, d, e, text), d, e), d, e, text)

\* one iteration of the loop over document.select(div), for element e
ScanElement(dt, d, e, in_stock, coming_soon) ==
    LET text == LeadingText(d, e)
        d1 == HighlightsRule(dt, d, e, text)
        d2 == OffersRule(d1, d, e, text, in_stock)
        d3 == SpecificationsRule(d2, d, e, text)
    IN  IF coming_soon THEN [details |-> d3, panic |-> FALSE]
        ELSE PriceRule(FAssuredRule(RatingRule(d3, d, e, text), d, e), d, e, text)

-----------------------------------------------------------------------------
(* The embedded-state extractor *)

MARK == "window.__INITIAL_STATE__"
PID == "productId"
SHARE == "product.share.pp"
QUOTE == "\""

Positions(s, tok) == {k \in 1..Len(s) : s[k] = tok}
Min(S) == CHOOSE x \in S : \A y \in S : x <= y
Max(S) == CHOOSE x \in S : \A y \in S : x >= y

\* str::split_once(tok): Some(<<before, after>>) around the first tok
SplitOnce(s, tok) ==
    IF Positions(s, tok) = {} THEN None
    ELSE LET k == Min(Positions(s, tok))
         IN  Some(<<SubSeq(s, 1, k - 1), SubSeq(s, k + 1, Len(s))>>)

\* str::rsplit_once(tok): Some(<<before, after>>) around the last tok
RSplitOnce(s, tok) ==
    IF Positions(s, tok) = {} THEN None
    ELSE LET k == Max(Positions(s, tok))
         IN  Some(<<SubSeq(s, 1, k - 1), SubSeq(s, k + 1, Len(s))>>)

RECURSIVE SplitInclusive(_, _)
\* str::split_inclusive(tok): the pieces of s, each ending with a tok except
\* perhaps the last
SplitInclusive(s, tok) ==
    IF s = <<>> THEN <<>>
    ELSE IF Positions(s, tok) = {} THEN <<s>>
    ELSE LET k == Min(Positions(s, tok))
         IN  <<SubSeq(s, 1, k)>> \o SplitInclusive(SubSeq(s, k + 1, Len(s)), tok)

RECURSIVE TrimStartMatches(_, _)
TrimStartMatches(s, pat) ==
    IF s # <<>> /\ Head(s) \in pat THEN TrimStartMatches(Tail(s), pat) ELSE s
RECURSIVE TrimEndMatches(_, _)
TrimEndMatches(s, pat) ==
    IF s # <<>> /\ s[Len(s)] \in pat
    THEN TrimEndMatches(SubSeq(s, 1, Len(s) - 1), pat) ELSE s
\* str::trim_matches(pat)
TrimMatches(s, pat) == TrimEndMatches(TrimStartMatches(s, pat), pat)

\* the product id of a state blob that has a productId marker
ProductIdOf(text) ==
    LET id_container == TrimMatches(Trim(SplitOnce(text, PID).val[2]), {QUOTE, ":"})
        parts == SplitOnce(id_container, QUOTE)
    IN  IF parts.some THEN Some(parts.val[1]) ELSE None

RECURSIVE LinkOf(_)
\* the first piece whose text after its last quote parses as a URL
LinkOf(pieces) ==
    IF pieces = <<>> THEN None
    ELSE LET link_to_product == RSplitOnce(Head(pieces), QUOTE)
             link == IF link_to_product.some THEN UrlParse(link_to_product.val[2]) ELSE None
         IN  IF link.some THEN link ELSE LinkOf(Tail(pieces))

RECURSIVE ScriptLoopLast(_, _, _)
\* ScriptLoop that goes on after a link is found, so that the last link wins
ScriptLoopLast(dt, d, scripts) ==
    IF scripts = <<>> THEN dt
    ELSE LET text == Concat(Text(d, Head(scripts)))
         IN  IF ~StartsWith(text, MARK) THEN ScriptLoopLast(dt, d, Tail(scripts))
             ELSE LET d1 == IF SplitOnce(text, PID).some
                            THEN [dt EXCEPT !.product_id = ProductIdOf(text)] ELSE dt
                      link == LinkOf(SplitInclusive(text, SHARE))
                  IN  IF link.some
                      THEN ScriptLoopLast([d1 EXCEPT !.share_url = UrlString(link.val)],
                                          d, Tail(scripts))
                      ELSE ScriptLoopLast(d1, d, Tail(scripts))

RECURSIVE ScriptLoop(_, _, _)
\* the loop 'link_identifier over document.select(script)
ScriptLoop(dt, d, scripts) ==
    IF scripts = <<>> THEN dt
    ELSE LET text == Concat(Text(d, Head(scripts)))
         IN  IF ~StartsWith(text, MARK) THEN ScriptLoop(dt, d, Tail(scripts))
             ELSE LET d1 == IF SplitOnce(text, PID).some
                            THEN [dt EXCEPT !.product_id = ProductIdOf(text)] ELSE dt
                      link == LinkOf(SplitInclusive(text, SHARE))
                  IN  IF link.some
                      THEN [d1 EXCEPT !.share_url = UrlString(link.val)]
                      ELSE ScriptLoop(d1, d, Tail(scripts))

\* ShareUrlFallback that leaves share_url as the script loop left it
ShareUrlNoFallback(dt, u) == dt

\* the fallback to the requested URL
ShareUrlFallback(dt, u) ==
    IF dt.share_url = <<>> THEN [dt EXCEPT !.share_url = UrlString(u)] ELSE dt

-----------------------------------------------------------------------------
(* The pages the network may answer with.  A body is the set of phrases its   *)
(* raw text contains and the document it parses to.                           *)

T(s) == TextNode(s)
Img(src) == ElA("img", OptAttr("src", src), <<>>)

P100 == <<RUPEE, "1", "0", "0">>
P1500 == <<RUPEE, "1", ",", "5", "0", "0">>
P150 == <<RUPEE, "1", "5", "0">>
PBad == <<RUPEE, "x">>
R43 == <<"4", ".", "3">>

\* what a div of the price and rating region holds before its nested divs
DivKinds ==
    { <<T(P100)>>, <<T(P1500)>>, <<T(PBad)>>,
      <<T(R43), Img(Some(STAR_SVG)), Img(Some(FA_PNG))>> }

RECURSIVE DivTrees(_)
RECURSIVE DivForests(_)
\* the div trees of exactly n divs
DivTrees(n) ==
    {El("div", k \o f) : k \in DivKinds, f \in DivForests(n - 1)}
\* the sequences of div trees of exactly n divs in all
DivForests(n) ==
    IF n = 0 THEN {<<>>}
    ELSE UNION {{<<t>> \o f : t \in DivTrees(j), f \in DivForests(n - j)} : j \in 1..n}

PriceRegions == UNION {DivForests(n) : n \in 0..MaxDivs}

H1Title == El("h1", <<T(<<"Phone">>)>>)
TitleElem == El("title", <<T(<<"Phone", " ", "Online">>)>>)
SellerSpan ==
    ElA("span", "id" :> "sellerName",
        <<El("span", <<T(<<"RetailNet">>)>>)>>)

StockPhrases == {{}, {SOON}, {OOS}, {SOON, OOS}}

\* pages that vary the price and rating region
PricePages ==
    {[phr |-> ph, dom |-> Doc(<<H1Title, SellerSpan>> \o f)] :
        ph \in {{}, {SOON}, {OOS}}, f \in PriceRegions}

TitleOptions == {<<H1Title, TitleElem>>, <<TitleElem>>, <<>>}
ThumbOptions ==
    { <<>>,
      <<El("ul", <<El("li", <<T(<<"Home">>), Img(Some("logo.png"))>>)>>),
        El("ul", <<El("li", <<Img(None)>>)>>),
        El("ul", <<El("li", <<Img(Some("t1.jpg"))>>), El("li", <<Img(None), Img(Some("t2.jpg"))>>)>>),
        El("ul", <<El("li", <<Img(Some("t3.jpg"))>>)>>)>>,
      <<El("ul", <<El("li", <<T(<<" ">>)>>)>>)>> }
SellerOptions ==
    { <<>>,
      <<SellerSpan>>,
      <<ElA("div", "id" :> "sellerName",
            <<El("span", <<El("span", <<T(<<"RetailNet">>)>>),
                           El("div", <<T(<<" ">> \o R43 \o <<" ">>), Img(Some(STAR_SVG))>>)>>)>>)>>,
      <<ElA("div", "id" :> "sellerName",
            <<El("div", <<T(<<" ", "RetailNet", " ">>)>>)>>)>>,
      <<ElA("div", "id" :> "sellerName", <<El("span", <<>>)>>)>>,
      <<ElA("div", "id" :> "sellerName",
            <<El("span", <<>>), El("div", <<>>)>>)>> }

\* pages that vary the title, the thumbnail lists and the seller block
HeadPages ==
    {[phr |-> ph, dom |-> Doc(t \o th \o se)] :
        ph \in StockPhrases, t \in TitleOptions, th \in ThumbOptions, se \in SellerOptions}

Li(kids) == El("li", kids)
Span(kids) == El("span", kids)
OfferList ==
    El("ul", <<Li(<<Span(<<T(<<"Bank Offer">>)>>), Span(<<T(<<"5% cashback">>), El("a", <<T(<<"T&C">>)>>)>>)>>),
               Li(<<Span(<<T(<<"Special Price">>)>>), T(<<"extra 10% off">>)>>),
               Li(<<Span(<<T(<<"No Cost EMI">>)>>)>>),
               Li(<<Span(<<T(<<"Partner Offer">>)>>), Span(<<Img(None)>>)>>),
               Li(<<T(<<"plain">>)>>)>>)
SpecTable ==
    El("div", <<El("div", <<T(<<"General">>)>>),
                El("table", <<El("tr", <<El("td", <<T(<<"Colour">>)>>), El("td", <<T(<<"Blue">>)>>)>>),
                              El("tr", <<El("td", <<T(<<"Note">>)>>)>>)>>),
                El("table", <<El("tr", <<El("td", <<T(<<"a">>)>>), El("td", <<T(<<"b">>)>>)>>)>>)>>)

Sections ==
    { El("div", <<T(<<"Highlights">>), El("ul", <<Li(<<T(<<"4 GB RAM">>)>>), Li(<<T(<<"6.6 inch">>)>>), Li(<<T(<<"5000 mAh">>)>>)>>)>>),
      El("div", <<T(<<" ", "Highlights">>)>>),
      El("div", <<T(<<"Highlights">>), El("ul", <<Li(<<T(<<"2 GB RAM">>)>>)>>)>>),
      El("div", <<T(<<"Available offers">>), OfferList>>),
      El("div", <<El("div", <<T(<<"Available offers">>), El("ul", <<Li(<<Span(<<T(<<"Bank Offer">>)>>), T(<<"x">>)>>)>>)>>)>>),
      El("div", <<T(<<"Specifications">>), SpecTable>>),
      El("div", <<T(<<"Specifications">>)>>),
      El("div", <<T(P100), El("div", <<T(P100)>>), El("div", <<T(P150)>>)>>) }

\* pages that vary the highlights, offers and specifications sections
SectionPages ==
    {[phr |-> ph, dom |-> Doc(<<H1Title, SellerSpan>> \o secs)] :
        ph \in {{}, {SOON}, {OOS}},
        secs \in {<<>>} \cup {<<a>> : a \in Sections} \cup {<<a, b>> : a \in Sections, b \in Sections}}

Script(s) == El("script", <<T(s)>>)
ScriptTexts ==
    { <<"var", "x">>,
      <<MARK, "=", "{", QUOTE, PID, QUOTE, ":", QUOTE, "ITM1", QUOTE, "}">>,
      <<MARK, "=", "{", PID, " ", ":", "ITM2", "}">>,
      <<MARK, "=", "{", QUOTE, PID, QUOTE, ":", QUOTE, "ITM3", QUOTE, ",", QUOTE,
        "https://", "dl.flipkart.com", "/", "s/abc", "?cmpid=", SHARE, QUOTE, "}">>,
      <<MARK, "=", "{", QUOTE, "/", "s/rel", "?cmpid=", SHARE, QUOTE, ",", QUOTE,
        "https://", "dl.flipkart.com", "?cmpid=", SHARE, QUOTE, "}">>,
      <<MARK, "=", "{", QUOTE, SHARE, QUOTE, ":", QUOTE, "x", QUOTE, "}">> }

RECURSIVE ScriptSeqs(_)
ScriptSeqs(n) ==
    IF n = 0 THEN {<<>>}
    ELSE {<<>>} \cup {<<Script(s)>> \o r : s \in ScriptTexts, r \in ScriptSeqs(n - 1)}

\* pages that vary the script blocks
ScriptPages ==
    {[phr |-> {}, dom |-> Doc(<<H1Title>> \o ss)] : ss \in ScriptSeqs(MaxScripts)}

FullPage ==
    Doc(<<H1Title, SellerSpan,
          El("div", <<El("div", <<T(R43), Img(Some(STAR_SVG))>>), Img(Some(FA_PNG))>>),
          El("div", <<T(P100), El("div", <<T(P100)>>), El("div", <<T(P1500)>>)>>)>>)

\* pages whose raw text carries a not-found or server-error signature
SignaturePages ==
    {[phr |-> ph, dom |-> FullPage] :
        ph \in {x \in SUBSET Phrases : x \cap {MOVED, NOTRIGHT, ISE} # {}}}

Bodies == PricePages \cup HeadPages \cup SectionPages \cup ScriptPages \cup SignaturePages

NoBody == [phr |-> {}, dom |-> <<>>]

U1 == <<"https://", "www.flipkart.com", "/", "p/itm1">>
U3 == <<"https://", "www.example.com", "/", "p/itm1">>
U4 == <<"https://", "127.0.0.1", "/", "p/itm1">>
Urls == {U1, U3, U4}

-----------------------------------------------------------------------------
(* ProductDetails::fetch, one invocation i *)

ERR_DOMAIN == "Domain name invalid."
ERR_ONLY_FLIPKART == "Only flipkart.com is supported"
ERR_NO_PRODUCT == "Link provided doesn't corresponds to any product"
ERR_HOST_DOWN == "Internal Server Error. Host is down or is blocking use of this library."
ERR_TRANSPORT == "reqwest::Error"

\* DomainCheck that lets a host without a domain name pass
DomainCheckLax(u) ==
    IF Domain(u).some /\ ~ContainsFlipkart(Domain(u).val) THEN ERR_ONLY_FLIPKART
    ELSE "ok"

\* the domain check on the URL
DomainCheck(u) ==
    IF ~Domain(u).some THEN ERR_DOMAIN
    ELSE IF ~ContainsFlipkart(Domain(u).val) THEN ERR_ONLY_FLIPKART
    ELSE "ok"

\* SignatureCheck with the two tests in the other order
SignatureCheckSwapped(b) ==
    IF ServerErrorSignature(b) THEN ERR_HOST_DOWN
    ELSE IF NotFoundSignature(b) THEN ERR_NO_PRODUCT
    ELSE "ok"

\* the signature check on the raw body
SignatureCheck(b) ==
    IF NotFoundSignature(b) THEN ERR_NO_PRODUCT
    ELSE IF ServerErrorSignature(b) THEN ERR_HOST_DOWN
    ELSE "ok"

\* HeadDetails with the seller read whatever the stock status
HeadDetailsUngated(b) ==
    [DefaultDetails EXCEPT
        !.name = TitleOf(b.dom),
        !.thumbnails = ThumbnailsOf(b.dom, Select(b.dom, 0, "ul")),
        !.in_stock = InStock(b),
        !.seller = SellerOf(b.dom)]

\* the fields set before the loop over the divs
HeadDetails(b) ==
    [DefaultDetails EXCEPT
        !.name = TitleOf(b.dom),
        !.thumbnails = ThumbnailsOf(b.dom, Select(b.dom, 0, "ul")),
        !.in_stock = InStock(b),
        !.seller = IF InStock(b) THEN SellerOf(b.dom) ELSE None]

\* fetch is entered: the domain check, then the request is sent
Call(i) ==
    /\ pc[i] = "called"
    /\ IF DomainCheck(url[i]) # "ok"
       THEN /\ pc' = [pc EXCEPT ![i] = "error"]
            /\ err' = [err EXCEPT ![i] = DomainCheck(url[i])]
            /\ net' = net
       ELSE /\ pc' = [pc EXCEPT ![i] = "fetching"]
            /\ net' = [net EXCEPT ![i] = @ + 1]
            /\ err' = err
    /\ UNCHANGED <<url, body, details, idx, searchVars>>

\* send() or text() fails
TransportError(i) ==
    /\ pc[i] = "fetching"
    /\ pc' = [pc EXCEPT ![i] = "error"]
    /\ err' = [err EXCEPT ![i] = ERR_TRANSPORT]
    /\ UNCHANGED <<url, body, details, idx, net, searchVars>>

\* Receive with one response buffer for all the invocations
ReceiveShared(i, b) ==
    /\ pc[i] = "fetching"
    /\ body' = [j \in Invs |-> b]
    /\ IF SignatureCheck(b) # "ok"
       THEN /\ pc' = [pc EXCEPT ![i] = "error"]
            /\ err' = [err EXCEPT ![i] = SignatureCheck(b)]
            /\ UNCHANGED <<details, idx>>
       ELSE /\ pc' = [pc EXCEPT ![i] = "scan"]
            /\ details' = [details EXCEPT ![i] = HeadDetails(b)]
            /\ idx' = [idx EXCEPT ![i] = 1]
            /\ err' = err
    /\ UNCHANGED <<url, net, searchVars>>

\* the body b arrives: the signature checks, the parse, the title, the
\* thumbnails, the stock status and the seller
Receive(i, b) ==
    /\ pc[i] = "fetching"
    /\ body' = [body EXCEPT ![i] = b]
    /\ IF SignatureCheck(b) # "ok"
       THEN /\ pc' = [pc EXCEPT ![i] = "error"]
            /\ err' = [err EXCEPT ![i] = SignatureCheck(b)]
            /\ UNCHANGED <<details, idx>>
       ELSE /\ pc' = [pc EXCEPT ![i] = "scan"]
            /\ details' = [details EXCEPT ![i] = HeadDetails(b)]
            /\ idx' = [idx EXCEPT ![i] = 1]
            /\ err' = err
    /\ UNCHANGED <<url, net, searchVars>>

\* the response of the network: any of the bodies
Respond(i) == pc[i] = "fetching" /\ \E b \in Bodies : Receive(i, b)

Divs(i) == Select(body[i].dom, 0, "div")

\* one iteration of the loop over the divs; a panic unwinds fetch
ScanStep(i) ==
    /\ pc[i] = "scan"
    /\ idx[i] <= Len(Divs(i))
    /\ LET r == ScanElement(details[i], body[i].dom, Divs(i)[idx[i]],
                            InStock(body[i]), ComingSoon(body[i]))
       IN  IF r.panic
           THEN /\ pc' = [pc EXCEPT ![i] = "panic"]
                /\ UNCHANGED <<details, idx>>
           ELSE /\ details' = [details EXCEPT ![i] = r.details]
                /\ idx' = [idx EXCEPT ![i] = @ + 1]
                /\ pc' = pc
    /\ UNCHANGED <<url, body, net, err, searchVars>>

\* after the last div: the script blocks, the share_url fallback, Ok(details)
Finish(i) ==
    /\ pc[i] = "scan"
    /\ idx[i] > Len(Divs(i))
    /\ details' = [details EXCEPT ![i] =
           ShareUrlFallback(
               ScriptLoop(details[i], body[i].dom, Select(body[i].dom, 0, "script")),
               url[i])]
    /\ pc' = [pc EXCEPT ![i] = "done"]
    /\ UNCHANGED <<url, body, idx, net, err, searchVars>>

-----------------------------------------------------------------------------
(* ProductSearch::search_doc and ProductSearch::search *)

SEARCH_BASE == <<"https://", "www.flipkart.com", "/", "search", "?marketplace=FLIPKART">>
SITE == <<"https://", "flipkart.com">>
SPONSORED == "Sponsored"

\* form-urlencoding of the query: a space becomes "+"
EncodeQuery(q) == [k \in 1..Len(q) |-> IF q[k] = " " THEN "+" ELSE q[k]]

\* Url::parse_with_params(base, [("q", query)]) as a string
SearchUrl(q) == SEARCH_BASE \o <<"&q=">> \o EncodeQuery(q)

\* ProductLink without the rewrite: every href is copied as it is
ProductLinkBare(link) == link

\* the href of the card's first link, made absolute when it starts with "/"
ProductLink(link) == IF StartsWith(link, "/") THEN SITE \o link ELSE link

\* ClassSelector that takes the empty string for a selector matching anything
ClassSelectorLax(classes) == Some(classes)

\* Selector::parse of the classes joined as ".a.b": no class gives the empty
\* string, which is no selector
ClassSelector(classes) == IF classes = <<>> THEN None ELSE Some(classes)

\* the text of the name element, the marker skipped
NameOfElem(d, name_elem) ==
    LET name == First(Text(d, name_elem))
    IN  IF name = Some(<<SPONSORED>>) THEN Nth(Text(d, name_elem), 2) ELSE name

\* the name of a card: the class-selected element of the first link, or else
\* the title of the second link, or else the first text of the link held then
CardName(d, links, class_selector) ==
    LET name_elem == First(SelectClass(d, links[1], class_selector))
        by_class == IF name_elem.some THEN NameOfElem(d, name_elem.val) ELSE None
        second == Nth(links, 2)
        by_title == IF second.some THEN Attr(d[second.val], "title") ELSE None
        link_elem == IF second.some THEN second.val ELSE links[1]
    IN  IF by_class.some THEN by_class
        ELSE IF by_title.some THEN by_title
        ELSE First(Text(d, link_elem))

RECURSIVE CardPriceLoop(_, _, _)
\* the loop over the divs of a card; the result is <<current, original>>
CardPriceLoop(d, divs, current_price) ==
    IF divs = <<>> THEN <<current_price, None>>
    ELSE LET price_tag == First(Text(d, Head(divs)))
         IN  IF ~(price_tag.some /\ StartsWith(price_tag.val, RUPEE))
             THEN CardPriceLoop(d, Tail(divs), current_price)
             ELSE LET text == StripPrefix(Concat(Text(d, Head(divs))), RUPEE).val
                  IN  IF Contains(text, RUPEE) THEN CardPriceLoop(d, Tail(divs), current_price)
                      ELSE IF ~current_price.some
                           THEN CardPriceLoop(d, Tail(divs), ParseI32(Remove(text, ",")))
                           ELSE <<current_price, ParseI32(Remove(text, ","))>>

CardPrices(d, product) == CardPriceLoop(d, Select(d, product, "div"), None)

\* the filter_map closure: the entry of the card product, or None
CardEntry(d, product) ==
    LET links == Select(d, product, "a")
        href == IF links # <<>> THEN Attr(d[links[1]], "href") ELSE None
        img == IF links # <<>> THEN First(Select(d, links[1], "img")) ELSE None
        thumbnail == IF img.some THEN Attr(d[img.val], "src") ELSE None
        last == IF links # <<>> THEN LastChild(d, links[1]) ELSE None
        class_selector == IF last.some /\ IsElement(d, last.val)
                          THEN ClassSelector(Classes(d[last.val])) ELSE None
        name == IF class_selector.some THEN CardName(d, links, class_selector.val) ELSE None
    IN  IF links = <<>> \/ ~href.some \/ ~thumbnail.some \/ ~class_selector.some \/ ~name.some
        THEN None
        ELSE Some([product_name |-> name.val,
                   product_link |-> ProductLink(href.val),
                   thumbnail |-> thumbnail.val,
                   current_price |-> CardPrices(d, product)[1],
                   original_price |-> CardPrices(d, product)[2]])

\* the card elements: the divs that carry a data-id attribute
Cards(d) == SelectSeq(Select(d, 0, "div"), LAMBDA m : Attr(d[m], "data-id").some)

RECURSIVE FilterMapReversed(_, _)
\* FilterMap that collects the entries last card first
FilterMapReversed(d, cards) ==
    IF cards = <<>> THEN <<>>
    ELSE FilterMapReversed(d, Tail(cards))
           \o (IF CardEntry(d, Head(cards)).some THEN <<CardEntry(d, Head(cards)).val>> ELSE <<>>)

RECURSIVE FilterMap(_, _)
FilterMap(d, cards) ==
    IF cards = <<>> THEN <<>>
    ELSE (IF CardEntry(d, Head(cards)).some THEN <<CardEntry(d, Head(cards)).val>> ELSE <<>>)
           \o FilterMap(d, Tail(cards))

SearchResults(d) == FilterMap(d, Cards(d))

\* the search pages the network may answer with
NameDiv(kids) == ElA("div", "class" :> <<"KzDlHZ">>, kids)
PlainName == <<T(<<"Phone A">>)>>
NameOptions ==
    { PlainName,
      <<Span(<<T(<<SPONSORED>>)>>), T(<<"Phone B">>)>>,
      <<T(<<SPONSORED>>)>>,
      <<>>,
      <<Span(<<T(<<SPONSORED>>)>>), Span(<<T(<<SPONSORED>>)>>)>> }
Thumb == Img(Some("p.jpg"))
LinkContents ==
    { <<NameDiv(PlainName)>>,
      <<Img(None), NameDiv(PlainName)>>,
      <<Thumb, NameDiv(PlainName), T(<<"tail">>)>>,
      <<Thumb, El("div", PlainName)>> }
HrefRooted == Some(<<"/", "p/itm1">>)
Hrefs ==
    { None, HrefRooted, Some(<<"p/itm1">>), Some(<<>>),
      Some(<<"https://", "www.flipkart.com", "/", "p/itm1">>),
      Some(<<"https://", "www.example.com", "/", "p/itm1">>) }
SecondLinks ==
    { <<>>,
      <<ElA("a", "title" :> <<"Phone T">>, <<T(<<"more">>)>>)>>,
      <<El("a", <<T(<<"Phone L">>)>>)>> }
PriceBlocks ==
    { <<El("div", <<T(P100)>>), El("div", <<T(P1500)>>)>>,
      <<El("div", <<T(P100)>>), El("div", <<T(PBad)>>)>>,
      <<El("div", <<El("div", <<T(P1500)>>), El("div", <<T(P100)>>)>>)>> }

Card(href, content, second, prices) ==
    ElA("div", "data-id" :> "id",
        <<ElA("a", OptAttr("href", href), content)>> \o second \o prices)

CardSet ==
    {Card(h, <<Thumb, NameDiv(PlainName)>>, <<>>, <<>>) : h \in Hrefs}
      \cup {Card(HrefRooted, c, <<>>, <<>>) : c \in LinkContents}
      \cup {Card(HrefRooted, <<Thumb, NameDiv(n)>>, <<>>, <<>>) : n \in NameOptions}
      \cup {Card(HrefRooted, <<Thumb, NameDiv(<<>>)>>, l, <<>>) : l \in SecondLinks}
      \cup {Card(HrefRooted, <<Thumb, NameDiv(<<T(<<SPONSORED>>)>>)>>, l, <<>>) : l \in SecondLinks}
      \cup {Card(HrefRooted, <<Thumb, NameDiv(PlainName)>>, <<>>, p) : p \in PriceBlocks}
      \cup {ElA("div", "data-id" :> "id", <<T(<<"ad">>)>>)}

RECURSIVE CardSeqs(_)
CardSeqs(n) ==
    IF n = 0 THEN {<<>>}
    ELSE {<<>>} \cup {<<c>> \o r : c \in CardSet, r \in CardSeqs(n - 1)}

SearchPages == {Doc(<<El("div", <<T(<<"Showing results">>)>>)>> \o cs) : cs \in CardSeqs(MaxCards)}

Queries == {<<"phone">>, <<"red", " ", "phone">>}

\* ProductSearch::search_doc(query, body)
SearchDoc(b) ==
    /\ spc = "idle"
    /\ sbody' = b
    /\ sresults' = SearchResults(b)
    /\ spc' = "done"
    /\ UNCHANGED <<squery, snet, self, fetchVars>>

\* ProductSearch::search(query) up to the request
SearchSend ==
    /\ spc = "idle"
    /\ spc' = "fetching"
    /\ snet' = snet + 1
    /\ UNCHANGED <<squery, sbody, sresults, self, fetchVars>>

SearchTransportError ==
    /\ spc = "fetching"
    /\ spc' = "error"
    /\ UNCHANGED <<squery, sbody, sresults, snet, self, fetchVars>>

\* the body b arrives and the cards are mapped to entries
SearchReceive(b) ==
    /\ spc = "fetching"
    /\ sbody' = b
    /\ sresults' = SearchResults(b)
    /\ spc' = "done"
    /\ UNCHANGED <<squery, snet, self, fetchVars>>

SearchDocCall == spc = "idle" /\ \E b \in SearchPages : SearchDoc(b)
SearchRespond == spc = "fetching" /\ \E b \in SearchPages : SearchReceive(b)

\* ProductSearch.query_url
QueryUrl == SearchUrl(squery)

InitSearch ==
    /\ url = [i \in Invs |-> U1]
    /\ pc = [i \in Invs |-> "idle"]
    /\ body = [i \in Invs |-> NoBody]
    /\ details = [i \in Invs |-> DefaultDetails]
    /\ idx = [i \in Invs |-> 0]
    /\ net = [i \in Invs |-> 0]
    /\ err = [i \in Invs |-> ""]
    /\ spc = "idle"
    /\ squery \in Queries
    /\ sbody = <<>>
    /\ sresults = <<>>
    /\ snet = 0
    /\ self = [i \in Invs |-> 0]

InitFetch ==
    /\ \E u \in Urls : url = [i \in Invs |-> IF i = 1 THEN u ELSE U1]
    /\ pc = [i \in Invs |-> IF i = 1 THEN "called" ELSE "idle"]
    /\ body = [i \in Invs |-> NoBody]
    /\ details = [i \in Invs |-> DefaultDetails]
    /\ idx = [i \in Invs |-> 0]
    /\ net = [i \in Invs |-> 0]
    /\ err = [i \in Invs |-> ""]
    /\ spc = "off"
    /\ squery = <<>>
    /\ sbody = <<>>
    /\ sresults = <<>>
    /\ snet = 0
    /\ self = [i \in Invs |-> 0]

Init == InitFetch \/ InitSearch

Next ==
    \/ \E i \in Invs : Call(i)
    \/ \E i \in Invs : TransportError(i)
    \/ \E i \in Invs : Respond(i)
    \/ \E i \in Invs : ScanStep(i)
    \/ \E i \in Invs : Finish(i)
    \/ SearchDocCall
    \/ SearchSend
    \/ SearchTransportError
    \/ SearchRespond

Spec == Init /\ [][Next]_vars

-----------------------------------------------------------------------------
(* Several invocations of fetch in flight at once *)

\* the bodies answered to the concurrent invocations
ConcBodies ==
    { [phr |-> {}, dom |-> FullPage],
      [phr |-> {OOS}, dom |-> FullPage],
      [phr |-> {MOVED}, dom |-> FullPage],
      [phr |-> {}, dom |-> Doc(<<H1Title, El("div", <<T(P100), El("div", <<T(R43)>>)>>),
                                 Script(<<MARK, "=", "{", QUOTE, PID, QUOTE, ":", QUOTE, "ITM1", QUOTE, "}">>)>>)],
      [phr |-> {}, dom |-> Doc(<<TitleElem,
                                 Script(<<MARK, "=", "{", QUOTE, PID, QUOTE, ":", QUOTE, "ITM3", QUOTE, ",", QUOTE,
                                          "https://", "dl.flipkart.com", "/", "s/abc", "?cmpid=", SHARE, QUOTE, "}">>)>>)] }

RespondConc(i) == pc[i] = "fetching" /\ \E b \in ConcBodies : Receive(i, b)

InitConc ==
    /\ url \in [Invs -> {U1, U3}]
    /\ pc = [i \in Invs |-> "called"]
    /\ body = [i \in Invs |-> NoBody]
    /\ details = [i \in Invs |-> DefaultDetails]
    /\ idx = [i \in Invs |-> 0]
    /\ net = [i \in Invs |-> 0]
    /\ err = [i \in Invs |-> ""]
    /\ spc = "off"
    /\ squery = <<>>
    /\ sbody = <<>>
    /\ sresults = <<>>
    /\ snet = 0
    /\ self = [i \in Invs |-> 0]

NextConc ==
    \/ \E i \in Invs : Call(i)
    \/ \E i \in Invs : TransportError(i)
    \/ \E i \in Invs : RespondConc(i)
    \/ \E i \in Invs : ScanStep(i)
    \/ \E i \in Invs : Finish(i)

SpecConc == InitConc /\ [][NextConc]_vars

-----------------------------------------------------------------------------
(* ProductSearch::search followed by SearchResult::fetch_product *)

\* url::ParseError::RelativeUrlWithoutBase
ERR_PARSE == "relative URL without a base"

\* SearchResult::fetch_product on the k-th entry of the result set, as
\* invocation i: the link is parsed, and on success ProductDetails::fetch is
\* entered with the parsed URL (Call and the steps after it)
FetchProduct(i, k) ==
    /\ spc = "done"
    /\ pc[i] = "idle"
    /\ k \in 1..Len(sresults)
    /\ self' = [self EXCEPT ![i] = k]
    /\ LET product_link == UrlParse(sresults[k].product_link)
       IN  IF ~product_link.some
           THEN /\ pc' = [pc EXCEPT ![i] = "error"]
                /\ err' = [err EXCEPT ![i] = ERR_PARSE]
                /\ url' = url
           ELSE /\ pc' = [pc EXCEPT ![i] = "called"]
                /\ url' = [url EXCEPT ![i] = product_link.val]
                /\ err' = err
    /\ UNCHANGED <<body, details, idx, net, spc, squery, sbody, sresults, snet>>

\* the search pages answered: up to MaxCards cards that differ in the href
\* of the first link
ComposePages ==
    LET hrefs == (Hrefs \ {None})
                   \cup {Some(<<"/", "/www.example.com/p">>),
                         Some(<<"https://", "127.0.0.1", "/", "p/itm1">>)}
        cards == {Card(h, <<Thumb, NameDiv(PlainName)>>, <<>>, <<>>) : h \in hrefs}
        seqs == UNION {[1..n -> cards] : n \in 0..MaxCards}
    IN  {Doc(<<El("div", <<T(<<"Showing results">>)>>)>> \o cs) : cs \in seqs}

\* a search for one query is about to start, no invocation of fetch yet
InitCompose ==
    /\ url = [i \in Invs |-> U1]
    /\ pc = [i \in Invs |-> "idle"]
    /\ body = [i \in Invs |-> NoBody]
    /\ details = [i \in Invs |-> DefaultDetails]
    /\ idx = [i \in Invs |-> 0]
    /\ net = [i \in Invs |-> 0]
    /\ err = [i \in Invs |-> ""]
    /\ spc = "idle"
    /\ squery = <<"phone">>
    /\ sbody = <<>>
    /\ sresults = <<>>
    /\ snet = 0
    /\ self = [i \in Invs |-> 0]

NextCompose ==
    \/ SearchSend
    \/ SearchTransportError
    \/ spc = "fetching" /\ \E b \in ComposePages : SearchReceive(b)
    \/ \E i \in Invs, k \in 1..MaxCards : FetchProduct(i, k)
    \/ \E i \in Invs : Call(i)
    \/ \E i \in Invs : TransportError(i)
    \/ \E i \in Invs :
          /\ pc[i] = "fetching"
          /\ \E b \in {c \in ConcBodies : c.dom # FullPage \/ MOVED \in c.phr} : Receive(i, b)
    \/ \E i \in Invs : ScanStep(i)
    \/ \E i \in Invs : Finish(i)

SpecCompose == InitCompose /\ [][NextCompose]_vars

-----------------------------------------------------------------------------
(* Properties of ProductDetails::fetch *)

Returned(i) == pc[i] = "done"

\* the figure of a div read as a price block: its whole text starts with the
\* currency sign, holds no second one, and parses once the commas are removed
FigureOf(d, m) ==
    LET text == StripPrefix(Concat(Text(d, m)), RUPEE)
    IN  IF text.some /\ ~Contains(text.val, RUPEE)
        THEN ParseI32(Remove(text.val, ",")) ELSE None

\* the figures of the page do not decrease in document order
Ascending(d) ==
    \A m, n \in 1..Len(d) :
        (m < n /\ IsElem(d, m, "div") /\ IsElem(d, n, "div")
           /\ FigureOf(d, m).some /\ FigureOf(d, n).some)
        => FigureOf(d, m).val <= FigureOf(d, n).val

\* C1 as stated: in every returned record with both prices present,
\* current_price <= original_price, whatever the markup.
C1_PricesOrdered ==
    \A i \in Invs :
        (Returned(i) /\ details[i].current_price.some /\ details[i].original_price.some)
        => details[i].current_price.val <= details[i].original_price.val

\* C1 amended: in every returned record with both prices present,
\* current_price <= original_price provided the price figures of the page do
\* not decrease in document order; fetch binds the first figure to
\* current_price and the next to original_price without comparing them.
C1_PricesOrderedWhenAscending ==
    \A i \in Invs :
        (Returned(i) /\ details[i].current_price.some /\ details[i].original_price.some
           /\ Ascending(body[i].dom))
        => details[i].current_price.val <= details[i].original_price.val

C1_Witness ==
    \E i \in Invs :
        /\ Returned(i) /\ Ascending(body[i].dom)
        /\ details[i].current_price = Some(100)
        /\ details[i].original_price = Some(1500)

C3_NeverPanics ==
    \A i \in Invs :
        (/\ pc[i] \in {"scan", "done", "panic", "error"}
         /\ DomainCheck(url[i]) = "ok" /\ err[i] # ERR_TRANSPORT
         /\ ~NotFoundSignature(body[i]) /\ ~ServerErrorSignature(body[i]))
        => pc[i] \in {"scan", "done"}

\* no script starting with the marker holds a piece whose text after the last
\* quote parses as an absolute URL
NoRecoverableLink(d) ==
    \A sc \in {Select(d, 0, "script")[k] : k \in 1..Len(Select(d, 0, "script"))} :
        LET text == Concat(Text(d, sc))
            pieces == SplitInclusive(text, SHARE)
        IN  StartsWith(text, MARK)
            => \A j \in 1..Len(pieces) :
                   LET r == RSplitOnce(pieces[j], QUOTE)
                   IN  ~(r.some /\ UrlParse(r.val[2]).some)

\* C4: share_url of a returned record is never empty, and it is the requested
\* URL when no script yields a parseable absolute link.
C4_ShareUrlNonEmpty ==
    \A i \in Invs :
        Returned(i)
        => /\ details[i].share_url # <<>>
           /\ (NoRecoverableLink(body[i].dom) => details[i].share_url = UrlString(url[i]))

C4_Witness ==
    \E i \in Invs :
        /\ Returned(i) /\ NoRecoverableLink(body[i].dom)
        /\ \E k \in 1..Len(Select(body[i].dom, 0, "script")) :
              LET text == Concat(Text(body[i].dom, Select(body[i].dom, 0, "script")[k]))
              IN  StartsWith(text, MARK) /\ Contains(text, SHARE)
        /\ details[i].share_url = UrlString(url[i])

\* the host is an address without a domain name, or a name outside flipkart.com
OffDomain(u) == u[2] \in IpHosts \/ u[2] \notin {"www.flipkart.com", "dl.flipkart.com", "flipkart.com"}

\* C5: a URL whose host is off-domain or has no domain name is refused with an
\* input-validation error before any request: the request count stays zero and
\* no record is built.
C5_RejectedBeforeRequest ==
    \A i \in Invs :
        OffDomain(url[i])
        => /\ net[i] = 0
           /\ pc[i] \in {"idle", "called", "error"}
           /\ (pc[i] = "error" => err[i] \in {ERR_DOMAIN, ERR_ONLY_FLIPKART})
           /\ details[i] = DefaultDetails /\ body[i] = NoBody

C5_Witness ==
    \E i \in Invs :
        /\ url[i][2] \in IpHosts /\ pc[i] = "error" /\ err[i] = ERR_DOMAIN /\ net[i] = 0

\* C6: a body with a not-found phrase fails with the no-such-product error;
\* otherwise a body with "Internal Server Error" fails with the host-unavailable
\* error; the two differ from each other and from the validation and transport
\* errors; the failure comes before any extraction, so no record is built.
C6_SignatureErrors ==
    /\ \A i \in Invs :
          /\ ({MOVED, NOTRIGHT} \cap body[i].phr # {}
                => /\ pc[i] = "error" /\ err[i] = ERR_NO_PRODUCT
                   /\ details[i] = DefaultDetails /\ idx[i] = 0)
          /\ ({MOVED, NOTRIGHT} \cap body[i].phr = {} /\ ISE \in body[i].phr
                => /\ pc[i] = "error" /\ err[i] = ERR_HOST_DOWN
                   /\ details[i] = DefaultDetails /\ idx[i] = 0)
    /\ ERR_NO_PRODUCT # ERR_HOST_DOWN
    /\ {ERR_NO_PRODUCT, ERR_HOST_DOWN} \cap {ERR_DOMAIN, ERR_ONLY_FLIPKART, ERR_TRANSPORT} = {}

C6_Witness ==
    \E i \in Invs :
        /\ {MOVED, ISE} \subseteq body[i].phr
        /\ pc[i] = "error" /\ err[i] = ERR_NO_PRODUCT

\* C7: on a page holding "Coming Soon" and no failure signature, in_stock is
\* false and rating, current_price, original_price and seller are absent at
\* every step of the pass and in the returned record.
C7_ComingSoonGate ==
    \A i \in Invs :
        (SOON \in body[i].phr /\ pc[i] \in {"scan", "done"})
        => /\ ~details[i].in_stock
           /\ ~details[i].rating.some
           /\ ~details[i].current_price.some /\ ~details[i].original_price.some
           /\ ~details[i].seller.some

C7_Witness ==
    \E i \in Invs :
        /\ Returned(i) /\ SOON \in body[i].phr
        /\ SelectId(body[i].dom, 0, "sellerName") # <<>>
        /\ \E m \in 1..Len(body[i].dom) :
              /\ IsElem(body[i].dom, m, "img")
              /\ Attr(body[i].dom[m], "src") = Some(STAR_SVG)
        /\ \E m \in 1..Len(body[i].dom) :
              /\ IsElem(body[i].dom, m, "div")
              /\ StartsWith(LeadingText(body[i].dom, m), RUPEE)
              /\ Select(body[i].dom, m, "div") # <<>>

\* the element the invocation i is at in the loop over the divs
Current(i) == Divs(i)[idx[i]]

\* the invocation i takes a step of the loop over the divs
LoopStep(i) ==
    /\ pc[i] = "scan" /\ idx[i] <= Len(Divs(i))
    /\ (pc'[i] # pc[i] \/ idx'[i] # idx[i])

\* the leading text of the element starts with the currency sign
CurrencyLeading(d, e) == StartsWith(LeadingText(d, e), RUPEE)

\* the nested blocks of the element that are kept: those whose text holds no
\* currency sign after the leading one
KeptBlocks(d, e) ==
    SelectSeq(Select(d, e, "div"),
              LAMBDA n : ~Contains(Tail(Concat(Text(d, n))), RUPEE))

\* the pair the blocks of the element stand for: the first figure that parses,
\* then the next kept block, or the first figure again when that one does not parse
ExpectedPair(d, e) ==
    LET kept == KeptBlocks(d, e)
        ok == {k \in 1..Len(kept) : FigureOf(d, kept[k]).some}
    IN  IF ok = {} THEN <<None, None>>
        ELSE LET k == CHOOSE x \in ok : \A y \in ok : x <= y
                 cur == FigureOf(d, kept[k])
             IN  <<cur,
                   IF k = Len(kept) THEN None
                   ELSE IF FigureOf(d, kept[k + 1]).some THEN FigureOf(d, kept[k + 1])
                   ELSE cur>>

\* C14: on an in-stock page, when the loop reaches the price container (a
\* currency-leading element met with no price set, each nested block starting
\* with the currency sign), the step leaves the pair its blocks stand for:
\* compound blocks skipped, the first figure that parses as current_price, the
\* next kept block as original_price, or current_price when it does not parse.
C14_PriceContainer ==
    [][\A i \in Invs :
          (/\ LoopStep(i) /\ InStock(body[i])
           /\ ~details[i].current_price.some /\ ~details[i].original_price.some
           /\ CurrencyLeading(body[i].dom, Current(i))
           /\ \A n \in {Select(body[i].dom, Current(i), "div")[k] :
                          k \in 1..Len(Select(body[i].dom, Current(i), "div"))} :
                 StartsWith(Concat(Text(body[i].dom, n)), RUPEE))
          => /\ pc'[i] = "scan"
             /\ <<details'[i].current_price, details'[i].original_price>>
                  = ExpectedPair(body[i].dom, Current(i))]_vars

C14_Witness ==
    \E i \in Invs :
        /\ Returned(i) /\ InStock(body[i])
        /\ details[i].current_price = Some(100)
        /\ details[i].original_price = Some(150)
        /\ Len(details[i].highlights) = 3

\* the first element in document order with a currency-leading text
FirstCurrencyLeading(d) ==
    First(SelectSeq(Select(d, 0, "div"), LAMBDA e : CurrencyLeading(d, e)))

\* C15 as stated: both prices of the returned record come from the nested
\* blocks of the first currency-leading element, and no later element sets
\* or changes either.
C15_FirstElementOnly ==
    \A i \in Invs :
        (Returned(i) /\ SOON \notin body[i].phr)
        => LET e == FirstCurrencyLeading(body[i].dom)
           IN  <<details[i].current_price, details[i].original_price>>
                 = IF e.some THEN ExpectedPair(body[i].dom, e.val) ELSE <<None, None>>

\* C15 amended: a price is set or changed only at a currency-leading element
\* met while original_price is absent, and it is then the figure of a nested
\* block of that element (or current_price, for original_price); the two
\* prices may come from two such elements, and once original_price is set no
\* later element sets or changes either.
C15_CurrencyLeadingOnly ==
    [][\A i \in Invs :
          (\/ details'[i].current_price # details[i].current_price
           \/ details'[i].original_price # details[i].original_price)
          => /\ LoopStep(i)
             /\ CurrencyLeading(body[i].dom, Current(i))
             /\ ~details[i].original_price.some
             /\ LET blocks == Select(body[i].dom, Current(i), "div")
                    figures == {FigureOf(body[i].dom, blocks[k]) : k \in 1..Len(blocks)}
                IN  /\ details'[i].current_price \in figures \cup {details[i].current_price}
                    /\ details'[i].original_price
                         \in figures \cup {None, details'[i].current_price}]_vars

C15_Witness ==
    \E i \in Invs :
        /\ Returned(i) /\ details[i].original_price.some
        /\ LET e == FirstCurrencyLeading(body[i].dom)
           IN  e.some /\ ExpectedPair(body[i].dom, e.val) = <<details[i].current_price, None>>

\* the elements whose leading text starts with "Available offers"
OfferContainers(d) ==
    SelectSeq(Select(d, 0, "div"),
              LAMBDA e : StartsWith(LeadingText(d, e), "Available offers"))

\* C16 as stated: the offers of the returned record are those of the first
\* offers container and of no other, so that no list item of the document
\* gives more than one Offer.
C16_OffersOnce ==
    \A i \in Invs :
        (Returned(i) /\ InStock(body[i]) /\ OfferContainers(body[i].dom) # <<>>)
        => /\ details[i].offers
                = OffersOf(body[i].dom,
                           Select(body[i].dom, OfferContainers(body[i].dom)[1], "li"))
           /\ Len(details[i].offers) <= Len(Select(body[i].dom, 0, "li"))

\* the list items of the element that have a span
ItemsWithSpan(d, e) ==
    SelectSeq(Select(d, e, "li"), LAMBDA li : Select(d, li, "span") # <<>>)

\* the Offer the rule of C17 gives for a list item with a first span
OfferByRule(d, li) ==
    LET span == Select(d, li, "span")[1]
        sibling == NextSibling(d, span)
    IN  IF sibling.some /\ IsElem(d, sibling.val, "span")
        THEN [category |-> Some(Concat(Text(d, span))),
              description |-> IF FirstChild(d, sibling.val).some
                                 /\ AsText(d, FirstChild(d, sibling.val).val).some
                              THEN AsText(d, FirstChild(d, sibling.val).val).val
                              ELSE <<>>]
        ELSE [category |-> None, description |-> Concat(Text(d, span))]

\* C17 as stated: on a page with one offers container, every list item with
\* a first span gives one Offer: category and description from the two spans
\* when the next sibling is a span, otherwise (another sibling or none) no
\* category and the span's text as description.
C17_OfferPerItem ==
    \A i \in Invs :
        (Returned(i) /\ InStock(body[i]) /\ Len(OfferContainers(body[i].dom)) = 1)
        => LET items == ItemsWithSpan(body[i].dom, OfferContainers(body[i].dom)[1])
           IN  /\ Len(details[i].offers) = Len(items)
               /\ \A k \in 1..Len(items) :
                     details[i].offers[k] = OfferByRule(body[i].dom, items[k])

\* C18 as stated: a returned record carries a Seller only on an in-stock
\* page with a #sellerName element, and the name of that Seller is never empty.
C18_SellerNamed ==
    \A i \in Invs :
        (Returned(i) /\ details[i].seller.some)
        => /\ InStock(body[i])
           /\ SelectId(body[i].dom, 0, "sellerName") # <<>>
           /\ details[i].seller.val.name # <<>>

\* the text of the k-th script block
BlobText(d, k) == Concat(Text(d, Select(d, 0, "script")[k]))

\* the pieces of a blob whose text after the last quote is an absolute URL
LinkPieces(text) ==
    {j \in 1..Len(SplitInclusive(text, SHARE)) :
        LET r == RSplitOnce(SplitInclusive(text, SHARE)[j], QUOTE)
        IN  r.some /\ UrlParse(r.val[2]).some}

\* the link of a blob: that of its first such piece
BlobLink(text) ==
    LET j == CHOOSE x \in LinkPieces(text) : \A y \in LinkPieces(text) : x <= y
    IN  UrlString(UrlParse(RSplitOnce(SplitInclusive(text, SHARE)[j], QUOTE).val[2]).val)

\* the script blocks that start with the marker and yield a link
Winners(d) ==
    {k \in 1..Len(Select(d, 0, "script")) :
        StartsWith(BlobText(d, k), MARK) /\ LinkPieces(BlobText(d, k)) # {}}

\* the marker blobs with a productId marker among the first n script blocks
IdBlobs(d, n) ==
    {k \in 1..n : StartsWith(BlobText(d, k), MARK) /\ Contains(BlobText(d, k), PID)}

\* C19: during the pass over the elements share_url and product_id are not
\* yet set; in the returned record share_url is the link of the first marker
\* blob that yields one, and product_id is the one of the last productId blob
\* up to that blob: no later script block changes either.
C19_FirstLinkWins ==
    \A i \in Invs :
        /\ pc[i] = "scan" => details[i].share_url = <<>> /\ ~details[i].product_id.some
        /\ Returned(i)
           => LET d == body[i].dom
                  w == IF Winners(d) = {} THEN Len(Select(d, 0, "script"))
                       ELSE CHOOSE x \in Winners(d) : \A y \in Winners(d) : x <= y
                  ids == IdBlobs(d, w)
              IN  /\ details[i].share_url
                       = IF Winners(d) = {} THEN UrlString(url[i]) ELSE BlobLink(BlobText(d, w))
                  /\ details[i].product_id
                       = IF ids = {} THEN None
                         ELSE ProductIdOf(BlobText(d, CHOOSE x \in ids : \A y \in ids : x >= y))

C19_Witness ==
    \E i \in Invs :
        /\ Returned(i)
        /\ Winners(body[i].dom) = {1, 2}
        /\ BlobLink(BlobText(body[i].dom, 1)) # BlobLink(BlobText(body[i].dom, 2))
        /\ IdBlobs(body[i].dom, 2) # IdBlobs(body[i].dom, 1)
        /\ details[i].share_url = BlobLink(BlobText(body[i].dom, 1))

\* C20: at every step of the pass over the elements and in the returned
\* record original_price is present only if current_price is, and a step
\* that starts with original_price set leaves both prices as they are.
C20_OriginalFinal ==
    /\ [](\A i \in Invs : details[i].original_price.some => details[i].current_price.some)
    /\ [][\A i \in Invs :
             details[i].original_price.some
             => /\ details'[i].current_price = details[i].current_price
                /\ details'[i].original_price = details[i].original_price]_vars

C20_Witness ==
    \E i \in Invs :
        /\ pc[i] = "scan"
        /\ idx[i] <= Len(Divs(i))
        /\ details[i].original_price.some
        /\ details[i].current_price.some
        /\ CurrencyLeading(body[i].dom, Current(i))

-----------------------------------------------------------------------------
(* Properties of ProductSearch::search_doc and ProductSearch::search *)

Searched == spc = "done"

\* the first link of a card, if any
CardLink(d, c) == First(Select(d, c, "a"))

\* the card can yield a link and a name: its first link has an href, and a
\* name source is there (the link's own text, which holds the text of the
\* class-selected element, or the title of a second link)
HasLinkAndName(d, c) ==
    /\ CardLink(d, c).some
    /\ Attr(d[CardLink(d, c).val], "href").some
    /\ \/ Text(d, CardLink(d, c).val) # <<>>
       \/ /\ Len(Select(d, c, "a")) >= 2
          /\ Attr(d[Select(d, c, "a")[2]], "title").some

\* the element of the first link that carries every class of the link's last child
NameElem(d, c) ==
    LET l == CardLink(d, c).val
        want == Classes(d[LastChild(d, l).val])
    IN  First(SelectSeq(Descendants(d, l),
                        LAMBDA m : /\ IsElement(d, m)
                                   /\ \A k \in 1..Len(want) :
                                        \E j \in 1..Len(Classes(d[m])) :
                                            Classes(d[m])[j] = want[k]))

\* the name sources after the class-selected element: the title of the second
\* link, or else the first text of the second link when there is one, of the
\* first link otherwise
NameFallback(d, c) ==
    LET links == Select(d, c, "a")
    IN  IF Len(links) >= 2
        THEN OrOpt(Attr(d[links[2]], "title"), First(Text(d, links[2])))
        ELSE First(Text(d, links[1]))

\* the class-selected element has the marker as its first text node
SponsoredFirst(d, c) ==
    LET name_elem == NameElem(d, c)
    IN  name_elem.some /\ First(Text(d, name_elem.val)) = Some(<<SPONSORED>>)

\* the name the sources resolve to, if any
ResolvedName(d, c) ==
    LET name_elem == NameElem(d, c)
        texts == IF name_elem.some THEN Text(d, name_elem.val) ELSE <<>>
        by_class == IF First(texts) = Some(<<SPONSORED>>) THEN Nth(texts, 2) ELSE First(texts)
    IN  IF by_class.some THEN by_class ELSE NameFallback(d, c)

\* the card produces an entry: an href on the first link, a src on the link's
\* first img, a last child of the link that is an element with a class, a name
Qualifies(d, c) ==
    LET link == CardLink(d, c)
    IN  /\ link.some
        /\ Attr(d[link.val], "href").some
        /\ LET img == First(Select(d, link.val, "img"))
           IN  img.some /\ Attr(d[img.val], "src").some
        /\ LET last == LastChild(d, link.val)
           IN  last.some /\ IsElement(d, last.val) /\ Classes(d[last.val]) # <<>>
        /\ ResolvedName(d, c).some

ProducingCards(d) == SelectSeq(Cards(d), LAMBDA c : Qualifies(d, c))

C9_AbsoluteLinks ==
    Searched => \A k \in 1..Len(sresults) : UrlParse(sresults[k].product_link).some

\* C10 as stated: for a card whose class-selected name element has
\* "Sponsored" as its first text node, product_name is the second text node of
\* that element and never the marker.
C10_SponsoredSkipped ==
    Searched
    => LET producing == ProducingCards(sbody)
       IN  /\ Len(sresults) = Len(producing)
           /\ \A k \in 1..Len(sresults) :
                 (k <= Len(producing) /\ SponsoredFirst(sbody, producing[k]))
                 => LET texts == Text(sbody, NameElem(sbody, producing[k]).val)
                    IN  /\ Len(texts) >= 2
                        /\ sresults[k].product_name = texts[2]
                        /\ sresults[k].product_name # <<SPONSORED>>

\* the product_link the href of the card's first link stands for
LinkOfCard(d, c) ==
    LET href == Attr(d[CardLink(d, c).val], "href").val
    IN  IF href # <<>> /\ href[1] = "/" THEN <<"https://", "flipkart.com">> \o href ELSE href

\* C11: the results are in document order of the cards: entry k comes from
\* the k-th producing card, the producing cards of two entries i < j follow
\* one another in the document, and no card gives more than one entry.
C11_DocumentOrder ==
    Searched
    => LET producing == ProducingCards(sbody)
       IN  /\ Len(sresults) = Len(producing)
           /\ Len(sresults) <= Len(Cards(sbody))
           /\ \A i, j \in 1..Len(sresults) :
                 (i < j /\ j <= Len(producing))
                 => /\ producing[i] < producing[j]
                    /\ sresults[i].product_link = LinkOfCard(sbody, producing[i])
                    /\ sresults[j].product_link = LinkOfCard(sbody, producing[j])

C11_Witness ==
    /\ Searched /\ Len(sresults) = 2
    /\ sresults[1].product_link # sresults[2].product_link
    /\ LET producing == ProducingCards(sbody)
       IN  /\ Len(producing) = 2 /\ producing[1] < producing[2]
           /\ sresults[1].product_link = LinkOfCard(sbody, producing[1])
           /\ sresults[2].product_link = LinkOfCard(sbody, producing[2])

\* the divs of a card whose first text starts with the currency sign
CurrencyBlocks(d, c) ==
    SelectSeq(Select(d, c, "div"),
              LAMBDA m : First(Text(d, m)).some /\ StartsWith(First(Text(d, m)).val, RUPEE))

\* C13 as stated: on the currency-prefixed blocks of a card, the price loop of
\* the search gives the pair the price loop of the product page gives.
C13_SamePricePair ==
    Searched
    => LET producing == ProducingCards(sbody)
       IN  /\ Len(sresults) = Len(producing)
           /\ \A k \in 1..Len(sresults) :
                 k <= Len(producing)
                 => LET page == PriceLoop(DefaultDetails, sbody,
                                          CurrencyBlocks(sbody, producing[k]))
                    IN  /\ ~page.panic
                        /\ sresults[k].current_price = page.details.current_price
                        /\ sresults[k].original_price = page.details.original_price

-----------------------------------------------------------------------------
(* Properties of search followed by SearchResult::fetch_product *)

\* the href of the card behind the entry on which invocation i was started
EntryHref(i) ==
    LET card == ProducingCards(sbody)[self[i]]
    IN  Attr(sbody[CardLink(sbody, card).val], "href").val

\* the errors fetch_product returns before a request is sent
EarlyErrors == {ERR_PARSE, ERR_DOMAIN, ERR_ONLY_FLIPKART}

\* C21: when fetch_product is called on an entry whose card has a "/"-rooted
\* href, the rewritten link parses and passes the domain check, so the call
\* sends its request; when the entry's link is no absolute URL or names an
\* off-domain host, the call ends in an error and no request is sent.
C21_FetchProductGate ==
    \A i \in Invs :
        self[i] > 0
        => LET link == UrlParse(sresults[self[i]].product_link)
           IN  /\ StartsWith(EntryHref(i), "/")
                  => /\ link.some
                     /\ DomainCheck(link.val) = "ok"
                     /\ pc[i] # "idle"
                     /\ err[i] \notin EarlyErrors
                     /\ pc[i] # "called" => net[i] = 1
               /\ ~link.some
                  => pc[i] = "error" /\ err[i] = ERR_PARSE /\ net[i] = 0
               /\ link.some /\ OffDomain(link.val)
                  => /\ net[i] = 0
                     /\ pc[i] \in {"called", "error"}
                     /\ pc[i] = "error" => err[i] \in {ERR_DOMAIN, ERR_ONLY_FLIPKART}

\* two entries of one result set: fetch_product on the rooted one has sent
\* its request, fetch_product on the relative one has failed without one
C21_Witness ==
    \E i, j \in Invs :
        /\ self[i] > 0 /\ self[j] > 0
        /\ StartsWith(EntryHref(i), "/")
        /\ pc[i] = "fetching" /\ net[i] = 1
        /\ ~UrlParse(sresults[self[j]].product_link).some
        /\ pc[j] = "error" /\ err[j] = ERR_PARSE /\ net[j] = 0

-----------------------------------------------------------------------------
(* Properties of concurrent invocations *)

RECURSIVE ScanAll(_, _, _)
\* the loop over the divs es run from start to end on its own
ScanAll(dt, b, es) ==
    IF es = <<>> THEN [details |-> dt, panic |-> FALSE]
    ELSE LET r == ScanElement(dt, b.dom, Head(es), InStock(b), ComingSoon(b))
         IN  IF r.panic THEN r ELSE ScanAll(r.details, b, Tail(es))

\* what fetch gives for the URL u and the body b when it runs alone
AloneOutcome(u, b) ==
    IF DomainCheck(u) # "ok"
    THEN [pc |-> "error", err |-> DomainCheck(u), details |-> DefaultDetails]
    ELSE IF SignatureCheck(b) # "ok"
    THEN [pc |-> "error", err |-> SignatureCheck(b), details |-> DefaultDetails]
    ELSE LET r == ScanAll(HeadDetails(b), b, Select(b.dom, 0, "div"))
         IN  IF r.panic THEN [pc |-> "panic", err |-> "", details |-> DefaultDetails]
             ELSE [pc |-> "done", err |-> "",
                   details |-> ShareUrlFallback(
                                   ScriptLoop(r.details, b.dom, Select(b.dom, 0, "script")), u)]

\* C12: under every interleaving of the invocations, the record or error an
\* invocation ends with is the one fetch gives alone for its URL and body.
C12_Independent ==
    \A i \in Invs :
        (pc[i] \in {"done", "error", "panic"} /\ err[i] # ERR_TRANSPORT)
        => LET alone == AloneOutcome(url[i], body[i])
           IN  /\ pc[i] = alone.pc
               /\ err[i] = alone.err
               /\ pc[i] = "done" => details[i] = alone.details
               /\ pc[i] = "error" => details[i] = DefaultDetails

C12_Witness ==
    /\ pc[1] = "done" /\ pc[2] = "done"
    /\ body[1] # body[2] /\ details[1] # details[2]
    /\ details[1].in_stock /\ ~details[2].in_stock

====
